---- MODULE Spec2Model ----
(***************************************************************************)
(* The crawl loops of the JobSpy scrapers (Arbetsformedlingen, InfoJobs,   *)
(* PosaoHR, PracujPL, ProfessionHU, Upwork): pagination, quota, per-page   *)
(* and per-record failure handling, browser ownership.                     *)
(*                                                                         *)
(* One behaviour of Spec is one call of scrape() on one scraper against    *)
(* one site.  The site's listing pages are fixed when the crawl starts;    *)
(* navigation, selector and extraction failures are chosen by the          *)
(* environment at the step where the code performs the operation.          *)
(* SpecTwice lets the same request be crawled a second time, in the same   *)
(* or in another Python process.  SpecFields applies the field extraction  *)
(* of each scraper to one card.                                            *)
(*                                                                         *)
(* Time is counted in half seconds (ticks), so that the 0.5 s and 1.5 s    *)
(* of the source are whole numbers; a random pacing sleep lasts a whole    *)
(* number of seconds.  Only the sleeps of the code count: a load or a      *)
(* selector wait may take no time at all.                                  *)
(***************************************************************************)
EXTENDS Integers, Sequences, FiniteSets, TLC

\* ---- bounds of the model ----
MaxPage    == 2      \* listing pages the site can serve; later pages are empty
MaxCards   == 2      \* cards on one listing page
NumUrls    == 2      \* size of the largest pool of job URLs a site shows
MaxQuota   == 2      \* largest results_wanted of a request
NumSeeds   == 2      \* string-hash seeds a Python process can start with

Scrapers == {"Arbetsformedlingen", "InfoJobs", "PosaoHR", "PracujPL",
             "ProfessionHU", "Upwork"}
BrowserScrapers == {"Arbetsformedlingen", "InfoJobs", "PosaoHR", "ProfessionHU"}

Urls  == 1..NumUrls
Pages == 1..MaxPage
HashSeeds == 1..NumSeeds

Min(a, b) == IF a < b THEN a ELSE b

\* The sites of the model.  A site has n[p] cards on page p and shows the
\* URLs 1..pool in turn, card after card: with a pool as large as the number
\* of cards every URL is shown once, with a smaller pool URLs come back on the
\* same page or on a later one.
RECURSIVE CardsBefore(_, _)
CardsBefore(n, p) == IF p = 1 THEN 0 ELSE n[p - 1] + CardsBefore(n, p - 1)

SiteOf(n, pool) ==
    [p \in Pages |-> [k \in 1..n[p] |-> ((CardsBefore(n, p) + k - 1) % pool) + 1]]

Sites == {SiteOf(n, pool) : n \in [Pages -> 0..MaxCards], pool \in 1..NumUrls}

VARIABLES
    scraper,           \* which scraper class runs the crawl
    results_wanted,    \* scraper_input.results_wanted
    listing,           \* the site: listing[p] = job URLs of the cards of page p
    endless,           \* the site serves its last page for every later page number
    pc,                \* position of the crawl in its code
    job_list,          \* the accumulated records
    current_page_num,  \* page counter of the crawl loop
    browser,           \* "none" | "open" | "closed" (browser.close() executed)
    raised,            \* an exception left scrape()
    result,            \* jobs of the returned JobResponse
    fetched,           \* page numbers of the listing fetches issued, in order
    empty_pages,       \* listing pages that loaded and held no cards
    render_timeouts,   \* page numbers whose listing-container wait timed out
    cands,             \* cards found on the page processed last
    failed,            \* of these, cards whose extraction failed
    before,            \* len(job_list) when that page was processed
    max_page_num,      \* PracujPL: page count taken from the first page
    detail_open,       \* PosaoHR: detail pages opened and not closed
    job_card_locators, \* Arbetsformedlingen: cards of the current page
    i,                 \* Arbetsformedlingen: index of the current card (from 1)
    view,              \* Arbetsformedlingen: what the browser page shows
    company_name,      \* Arbetsformedlingen: the local company_name: "unbound"
                       \* (never assigned), "own" (assigned from the card
                       \* being read), "stale" (left from an earlier card)
    nav_lost,          \* Arbetsformedlingen: restoring the listing view failed
    nav_tries,         \* goto calls made for the record dropped last on a
                       \* failed detail navigation (0: none dropped)
    faults,            \* some navigation, wait, request or extraction failed
    delay,             \* the class attribute `delay`, in seconds
    band_delay,        \* the class attribute `band_delay`, in seconds
    hash_seed,         \* string-hash seed of the Python process
    waits,             \* pacing sleeps since the last listing fetch, in ticks
    idle,              \* ticks surely slept since the last fetch invocation
                       \* (every sleep counted at its shortest)
    hasty,             \* some fetch invocation followed the one before it
                       \* with less than `delay` seconds slept in between
    blocked_page,      \* PracujPL: page whose request met a block signal (0: none)
    reason,            \* why the crawl loop was left: "success" (quota met),
                       \* "exhausted" (no more records), "aborted" (a failure)
    run,               \* 1: first crawl of the request, 2: second crawl
    prev,              \* what the first crawl gave its caller
    card,              \* SpecFields: the card given to the field extraction
    extracted,         \* SpecFields: what the extraction returned
    self_scraper_input, \* SpecShared: the attribute self.scraper_input of the
                       \* scraper object the threads share
    threads,           \* SpecShared: per calling thread, its position in
                       \* scrape(), the input it passed, its local
                       \* results_wanted, the search terms of its page fetches
    in_flight,         \* SpecAwait: the fetches started and not yet completed
    pages_done,        \* SpecAwait: pages whose cards were all extracted and
                       \* whose records were added to job_list
    delegated,         \* Upwork: how the page fetch and the structuring
                       \* service answered, and the calls made to the service
    max_reported,      \* PracujPL: the page count in the pagination element
                       \* of the first page (0: no element, or not read yet)
    job_posts          \* SpecAwait: the posts collected from the page being
                       \* processed (`out`, `job_posts`)

\* the scraper object as several threads see it
shared  == <<self_scraper_input, threads>>

\* what one class only records
seen    == <<delegated, max_reported>>

\* the crawl as seen fetch by fetch
awaits  == <<in_flight, pages_done, job_posts>>

\* what no step of Next changes
request == <<scraper, results_wanted, listing, endless, delay, band_delay, hash_seed,
             run, prev, card, extracted, shared, awaits>>
pace    == <<waits, idle, hasty>>
stats   == <<fetched, empty_pages, render_timeouts, cands, failed, before>>
arb     == <<job_card_locators, i, view, company_name, nav_lost>>

vars == <<scraper, results_wanted, listing, endless, pc, job_list, current_page_num,
          browser, raised, result, fetched, empty_pages, render_timeouts,
          cands, failed, before, max_page_num, detail_open,
          job_card_locators, i, view, company_name, nav_lost, nav_tries,
          faults, delay, band_delay, hash_seed, waits, idle, hasty,
          blocked_page, reason, run, prev, card, extracted,
          self_scraper_input, threads, in_flight, pages_done, job_posts,
          delegated, max_reported>>

\* the page a URL with page number p shows
Content(p) == IF p \in Pages THEN listing[p]
              ELSE IF endless THEN listing[MaxPage] ELSE <<>>

\* `current_page_num += 1`.  On an endless site every page after the last one
\* is the same page: the model keeps one page number, MaxPage + 1, for all of
\* them, and one entry of the fetch log for their fetches in a row
PageAfter(p) == IF endless /\ p > MaxPage THEN p ELSE p + 1

Logged(log, p) ==
    IF endless /\ p > MaxPage /\ log # <<>> /\ log[Len(log)] = p
    THEN log ELSE Append(log, p)

\* jobs[:n]
Take(s, n) == SubSeq(s, 1, Min(n, Len(s)))

\* the records a page yields: one per card whose extraction did not fail,
\* in document order
\* hash(s) of a str: a function of the string and of the seed the process
\* drew at start-up (PYTHONHASHSEED unset)
PyHash(seed, s) == <<"hash", seed, s>>

\* the id of the JobPost built for job URL u.  PracujPL takes the offer id of
\* the card (one offer, one URL), the others abs(hash(job_url))
JobId(s, seed, u) ==
    IF s = "PracujPL" THEN <<"pracujpl", "offer", u>> ELSE <<s, PyHash(seed, u)>>

Post(p, k, u, comp) ==
    [url |-> u, page |-> p, pos |-> k, company |-> comp,
     id |-> JobId(scraper, hash_seed, u)]

Posts(p, cards, bad) ==
    SelectSeq([k \in 1..Len(cards) |-> Post(p, k, cards[k], "own")],
              LAMBDA r : r.pos \notin bad)

\* seconds to ticks
Ticks(sec) == 2 * sec

\* a draw that can last a second longer
Uniform_longer(a, b) == {Ticks(a), Ticks(b + 1)}

\* random.uniform(a, b) seconds, in ticks: the shortest and the longest the
\* draw can last
Uniform(a, b) == {Ticks(a), Ticks(b)}

\* a fetch invocation made after g ticks of sleep is hasty when g is less
\* than the base delay
Hasty(g) == g < Ticks(delay)

\* a listing fetch: the gap to the fetch before it is noted, the clocks start
\* again.  `slept`: ticks the code sleeps right after the load
NotePace(slept) ==
    /\ hasty' = (hasty \/ (fetched # <<>> /\ Hasty(idle)))
    /\ idle' = slept
    /\ waits' = <<>>

\* `sleep(random.uniform(self.delay, self.delay + self.band_delay))`
PacingSleep ==
    \E d \in Uniform(delay, delay + band_delay) :
        /\ waits' = Append(waits, d)
        /\ idle' = idle + Ticks(delay)
        /\ UNCHANGED hasty

\* a card as the field extraction sees it: is there a title element and has
\* it text, what is the href of the link ("relative": a path starting with
\* "/", "absolute": a URL starting with "http"), are there a company and a
\* location element, has the offer an id attribute (PracujPL)
Cards == [title : {"absent", "empty", "text"},
          href : {"none", "relative", "absolute"},
          company : BOOLEAN, location : BOOLEAN, offer_id : BOOLEAN]

NoCard == [title |-> "text", href |-> "relative", company |-> TRUE,
           location |-> TRUE, offer_id |-> TRUE]

\* None
None == [none |-> TRUE]

\* one caller only: the attribute is not watched, there are no threads
Alone ==
    /\ self_scraper_input = None
    /\ threads = <<>>

\* no fetch was started yet
NoFetches ==
    /\ in_flight = {}
    /\ pages_done = {}
    /\ job_posts = <<>>

\* the locals of a crawl that has not started
Unstarted ==
    /\ waits = <<>>
    /\ idle = 0
    /\ hasty = FALSE
    /\ blocked_page = 0
    /\ reason = "none"
    /\ job_list = <<>>
    /\ current_page_num = 1
    /\ browser = "none"
    /\ raised = FALSE
    /\ result = <<>>
    /\ fetched = <<>>
    /\ empty_pages = 0
    /\ render_timeouts = <<>>
    /\ cands = 0
    /\ failed = 0
    /\ before = 0
    /\ max_page_num = 1
    /\ detail_open = 0
    /\ job_card_locators = <<>>
    /\ i = 1
    /\ view = "blank"
    /\ company_name = "unbound"
    /\ nav_lost = FALSE
    /\ nav_tries = 0
    /\ faults = FALSE
    /\ delegated = None
    /\ max_reported = 0

Init ==
    /\ scraper \in Scrapers
    /\ results_wanted \in 1..MaxQuota
    /\ listing \in Sites
    /\ endless = FALSE
    /\ pc = "start"
    /\ delay = 2
    /\ band_delay = 3
    /\ hash_seed = 1
    /\ run = 1
    /\ prev = <<>>
    /\ card = NoCard
    /\ extracted = None
    /\ Alone
    /\ NoFetches
    /\ Unstarted

\* ---- decisions shared by the crawl loops ----

\* the loop condition `while len(job_list) < results_wanted`
LoopHead(jl, q) == IF Len(jl) < q THEN "fetch" ELSE "close"

\* reason when the loop condition is evaluated
AtLoopHead(jl, q) == IF Len(jl) < q THEN reason ELSE "success"

\* reason when a page gave no records: it loaded without cards or none of its
\* cards could be extracted ("exhausted"), or it did not load ("aborted")
EndReason(cards, out) ==
    IF out = "ok" \/ out = "vanished" \/ (out = "timeout" /\ cards = <<>>)
    THEN "exhausted" ELSE "aborted"

\* the check dropped: an empty page does not end the loop
NotJobs_never(jobs) == FALSE

\* `if not jobs: break` (None and the empty list are both falsy)
NotJobs(jobs) == jobs = <<>>

\* the new records put in front of the accumulated ones
Extend_in_front(jl, jobs, q) == Take(jobs, q - Len(jl)) \o jl

\* `job_list.extend(jobs[: results_wanted - len(job_list)])`
Extend(jl, jobs, q) == jl \o Take(jobs, q - Len(jl))

\* what the wait for the card selector can do on a page showing `cards`:
\* without cards it can only time out; with cards it succeeds, times out
\* (slow render), or succeeds and the cards are gone when they are queried
WaitOutcomes(cards) ==
    IF cards = <<>> THEN {"nav_error", "timeout"}
    ELSE {"ok", "nav_error", "timeout", "vanished"}

IsEmptyPage(cards, out) == (out = "timeout" /\ cards = <<>>) \/ out = "vanished"
IsRenderTimeout(cards, out) == out = "timeout" /\ cards # <<>>

\* bookkeeping of one listing fetch (observation only)
NoteFetch(p, cards, out, nbad) ==
    /\ fetched' = Append(fetched, p)
    /\ empty_pages' = IF IsEmptyPage(cards, out) THEN empty_pages + 1 ELSE empty_pages
    /\ render_timeouts' = IF IsRenderTimeout(cards, out)
                          THEN Append(render_timeouts, p) ELSE render_timeouts
    /\ cands' = IF out = "ok" THEN Len(cards) ELSE 0
    /\ failed' = IF out = "ok" THEN nbad ELSE 0
    /\ before' = Len(job_list)
    /\ faults' = (faults \/ nbad > 0 \/ (out # "ok" /\ ~(out = "timeout" /\ cards = <<>>)))

\* ---- InfoJobs ----

\* _fetch_jobs: None (here <<>>) on any failure, else the extracted posts
InfoJobs_fetch_jobs(p, out, bad) ==
    IF out = "ok" THEN Posts(p, Content(p), bad) ELSE <<>>

InfoJobs_launch ==
    /\ scraper = "InfoJobs" /\ pc = "start"
    /\ browser' = "open"
    /\ current_page_num' = 1
    /\ pc' = LoopHead(job_list, results_wanted)
    /\ reason' = AtLoopHead(job_list, results_wanted)
    /\ UNCHANGED <<request, seen, stats, arb, pace, job_list, raised, result,
                   max_page_num, detail_open, nav_tries, faults, blocked_page>>

InfoJobs_iteration ==
    /\ scraper = "InfoJobs" /\ pc = "fetch"
    /\ \E out \in WaitOutcomes(Content(current_page_num)),
          bad \in SUBSET (1..Len(Content(current_page_num))) :
         LET jobs == InfoJobs_fetch_jobs(current_page_num, out, bad) IN
         /\ NoteFetch(current_page_num, Content(current_page_num), out, Cardinality(bad))
         /\ NotePace(0)
         /\ IF NotJobs(jobs)
            THEN /\ pc' = "close"
                 /\ reason' = EndReason(Content(current_page_num), out)
                 /\ UNCHANGED <<job_list, current_page_num>>
            ELSE /\ job_list' = Extend(job_list, jobs, results_wanted)
                 /\ current_page_num' = current_page_num + 1
                 /\ pc' = "sleep"
                 /\ UNCHANGED reason
    /\ UNCHANGED <<request, seen, arb, browser, raised, result, max_page_num,
                   detail_open, nav_tries, blocked_page>>

InfoJobs_sleep ==
    /\ scraper = "InfoJobs" /\ pc = "sleep"
    /\ PacingSleep
    /\ pc' = LoopHead(job_list, results_wanted)
    /\ reason' = AtLoopHead(job_list, results_wanted)
    /\ UNCHANGED <<request, seen, stats, arb, job_list, current_page_num, browser,
                   raised, result, max_page_num, detail_open, nav_tries, faults,
                   blocked_page>>

InfoJobs_close ==
    /\ scraper = "InfoJobs" /\ pc = "close"
    /\ browser' = "closed"
    /\ result' = job_list
    /\ pc' = "done"
    /\ UNCHANGED <<request, seen, stats, arb, pace, job_list, current_page_num, raised,
                   max_page_num, detail_open, nav_tries, faults, blocked_page,
                   reason>>

\* ---- ProfessionHU ----

ProfessionHU_fetch_jobs(p, out, bad) ==
    IF out = "ok" THEN Posts(p, Content(p), bad) ELSE <<>>

\* `for job in jobs: job_list.append(job); if len(job_list) >= results_wanted: break`
RECURSIVE ProfessionHU_append(_, _, _)
ProfessionHU_append(jl, jobs, q) ==
    IF jobs = <<>> THEN jl
    ELSE LET jl1 == Append(jl, Head(jobs)) IN
         IF Len(jl1) >= q THEN jl1 ELSE ProfessionHU_append(jl1, Tail(jobs), q)

ProfessionHU_launch ==
    /\ scraper = "ProfessionHU" /\ pc = "start"
    /\ browser' = "open"
    /\ current_page_num' = 1
    /\ pc' = LoopHead(job_list, results_wanted)
    /\ reason' = AtLoopHead(job_list, results_wanted)
    /\ UNCHANGED <<request, seen, stats, arb, pace, job_list, raised, result,
                   max_page_num, detail_open, nav_tries, faults, blocked_page>>

ProfessionHU_iteration ==
    /\ scraper = "ProfessionHU" /\ pc = "fetch"
    /\ \E out \in WaitOutcomes(Content(current_page_num)),
          bad \in SUBSET (1..Len(Content(current_page_num))) :
         LET jobs == ProfessionHU_fetch_jobs(current_page_num, out, bad) IN
         /\ NoteFetch(current_page_num, Content(current_page_num), out, Cardinality(bad))
         /\ NotePace(0)
         /\ IF NotJobs(jobs)
            THEN /\ pc' = "close"
                 /\ reason' = EndReason(Content(current_page_num), out)
                 /\ UNCHANGED <<job_list, current_page_num>>
            ELSE /\ job_list' = ProfessionHU_append(job_list, jobs, results_wanted)
                 /\ current_page_num' = current_page_num + 1
                 /\ pc' = "sleep"
                 /\ UNCHANGED reason
    /\ UNCHANGED <<request, seen, arb, browser, raised, result, max_page_num,
                   detail_open, nav_tries, blocked_page>>

ProfessionHU_sleep ==
    /\ scraper = "ProfessionHU" /\ pc = "sleep"
    /\ PacingSleep
    /\ pc' = LoopHead(job_list, results_wanted)
    /\ reason' = AtLoopHead(job_list, results_wanted)
    /\ UNCHANGED <<request, seen, stats, arb, job_list, current_page_num, browser,
                   raised, result, max_page_num, detail_open, nav_tries, faults,
                   blocked_page>>

ProfessionHU_close ==
    /\ scraper = "ProfessionHU" /\ pc = "close"
    /\ browser' = "closed"
    /\ result' = Take(job_list, results_wanted)
    /\ pc' = "done"
    /\ UNCHANGED <<request, seen, stats, arb, pace, job_list, current_page_num, raised,
                   max_page_num, detail_open, nav_tries, faults, blocked_page,
                   reason>>

\* ---- PosaoHR ----

\* what reading and following the card at one position does:
\* "ok", "link" (inner_text / get_attribute of the link raises, or the href is
\* None so href.startswith raises), "detail" (_process_job_detail returns None)
PosaoCardOutcomes == {"ok", "link", "detail"}

\* the results page _fetch_jobs shows: it opens the base URL and submits the
\* search form, which gives the first results page; page_num goes into the
\* log messages only
PosaoHR_page_shown(page_num) == 1

\* the listing _fetch_jobs loads
PosaoHR_loaded(page_num) == Content(PosaoHR_page_shown(page_num))

\* _fetch_jobs: an exception anywhere in its body returns None, also after
\* posts were collected in `out`
PosaoHR_fetch_jobs(page_num, out, o) ==
    LET links == PosaoHR_loaded(page_num) IN
    IF out # "ok" THEN <<>>
    ELSE IF Len(links) = 0 THEN <<>>
    ELSE IF \E k \in 1..Len(links) : o[k] = "link" THEN <<>>
    ELSE Posts(page_num, links, {k \in 1..Len(links) : o[k] = "detail"})

\* detail pages _process_job_detail left open: detail.close() is reached on
\* the success path only; cards behind a failing link are never visited
PosaoHR_leaked(links, out, o) ==
    IF out # "ok" THEN 0
    ELSE Cardinality({k \in 1..Len(links) :
                        /\ o[k] = "detail"
                        /\ \A j \in 1..k : o[j] # "link"})

\* cards whose detail page _fetch_jobs navigates to: those before the first
\* failing link
PosaoHR_visited(links, out, o) ==
    IF out # "ok" THEN {}
    ELSE {k \in 1..Len(links) : \A j \in 1..k : o[j] # "link"}

\* why _fetch_jobs gave no posts: no links on the page, or every detail page
\* failed ("exhausted"); the load or the reading of a link failed ("aborted")
PosaoHR_reason(links, out, o) ==
    IF out # "ok" \/ (\E k \in 1..Len(links) : o[k] = "link")
    THEN "aborted" ELSE "exhausted"

PosaoHR_launch ==
    /\ scraper = "PosaoHR" /\ pc = "start"
    /\ browser' = "open"
    /\ current_page_num' = 1
    /\ pc' = LoopHead(job_list, results_wanted)
    /\ reason' = AtLoopHead(job_list, results_wanted)
    /\ UNCHANGED <<request, seen, stats, arb, pace, job_list, raised, result,
                   max_page_num, detail_open, nav_tries, faults, blocked_page>>

PosaoHR_iteration ==
    /\ scraper = "PosaoHR" /\ pc = "fetch"
    /\ LET links == PosaoHR_loaded(current_page_num) IN
       \E out \in {"ok", "nav_error", "timeout"},
          o \in [1..Len(links) -> PosaoCardOutcomes] :
         LET jobs == PosaoHR_fetch_jobs(current_page_num, out, o) IN
         /\ fetched' = Append(fetched, current_page_num)
         /\ empty_pages' = IF out = "ok" /\ Len(links) = 0
                           THEN empty_pages + 1 ELSE empty_pages
         /\ render_timeouts' = IF out = "timeout"
                               THEN Append(render_timeouts, current_page_num)
                               ELSE render_timeouts
         /\ cands' = IF out = "ok" THEN Len(links) ELSE 0
         /\ failed' = IF out = "ok"
                      THEN Cardinality({k \in 1..Len(links) : o[k] # "ok"}) ELSE 0
         /\ before' = Len(job_list)
         /\ faults' = (faults \/ out # "ok" \/ \E k \in 1..Len(links) : o[k] # "ok")
         /\ detail_open' = detail_open + PosaoHR_leaked(links, out, o)
         /\ nav_tries' = IF PosaoHR_leaked(links, out, o) > 0 THEN 1 ELSE nav_tries
         \* detail.goto follows page.goto, and the detail.goto before it,
         \* without a sleep
         /\ hasty' = (\/ hasty
                       \/ (fetched # <<>> /\ Hasty(idle))
                       \/ (PosaoHR_visited(links, out, o) # {} /\ Hasty(0)))
         /\ idle' = 0
         /\ waits' = <<>>
         /\ IF NotJobs(jobs)
            THEN /\ pc' = "close"
                 /\ reason' = PosaoHR_reason(links, out, o)
                 /\ UNCHANGED <<job_list, current_page_num>>
            ELSE /\ job_list' = Extend(job_list, jobs, results_wanted)
                 /\ current_page_num' = current_page_num + 1
                 /\ pc' = "sleep"
                 /\ UNCHANGED reason
    /\ UNCHANGED <<request, seen, arb, browser, raised, result, max_page_num,
                   blocked_page>>

PosaoHR_sleep ==
    /\ scraper = "PosaoHR" /\ pc = "sleep"
    /\ PacingSleep
    /\ pc' = LoopHead(job_list, results_wanted)
    /\ reason' = AtLoopHead(job_list, results_wanted)
    /\ UNCHANGED <<request, seen, stats, arb, job_list, current_page_num, browser,
                   raised, result, max_page_num, detail_open, nav_tries, faults,
                   blocked_page>>

PosaoHR_close ==
    /\ scraper = "PosaoHR" /\ pc = "close"
    /\ browser' = "closed"
    /\ result' = job_list
    /\ pc' = "done"
    /\ UNCHANGED <<request, seen, stats, arb, pace, job_list, current_page_num, raised,
                   max_page_num, detail_open, nav_tries, faults, blocked_page,
                   reason>>

\* ---- PracujPL ----

\* _make_request returns None on status 403, on block text in the body and on
\* any exception of the HTTP call
RequestOutcomes == {"ok", "blocked", "error"}

\* _get_max_page_number: the number in the pagination element, 1 without it
\* (reported = 0 stands for the missing element)
PracujPL_get_max_page_number(reported) == IF reported = 0 THEN 1 ELSE reported

\* _parse_jobs_from_page: None without offers, else the extracted posts
PracujPL_parse_jobs_from_page(p, bad) == Posts(p, Content(p), bad)

\* the page count left out of the test
PracujPL_more_quota_only(p, maxp, jl, q) == Len(jl) < q

\* `if current_page_num < max_page_num and len(job_list) < results_wanted`
PracujPL_more(p, maxp, jl, q) == p < maxp /\ Len(jl) < q

\* a blocked request taken for a response
PracujPL_no_response_on_error(out) == out = "error"

\* `if not response:` on what _make_request returned
PracujPL_no_response(out) == out # "ok"

\* reason when the page loop is left without a failure
PracujPL_reason(jl, q) == IF Len(jl) >= q THEN "success" ELSE "exhausted"

PracujPL_first_request ==
    /\ scraper = "PracujPL" /\ pc = "start"
    /\ \E out \in RequestOutcomes, reported \in 0..MaxPage :
         /\ fetched' = Append(fetched, 1)
         /\ faults' = (faults \/ out # "ok")
         /\ blocked_page' = IF out = "blocked" THEN 1 ELSE blocked_page
         /\ IF PracujPL_no_response(out)
            THEN /\ result' = <<>>
                 /\ pc' = "done"
                 /\ reason' = "aborted"
                 /\ UNCHANGED <<max_page_num, current_page_num>>
            ELSE /\ max_page_num' = PracujPL_get_max_page_number(reported)
                 /\ current_page_num' = 1
                 /\ pc' = "parse"
                 /\ UNCHANGED <<result, reason>>
         /\ max_reported' = IF PracujPL_no_response(out) THEN max_reported
                             ELSE reported
    /\ NotePace(0)
    /\ UNCHANGED <<request, delegated, arb, job_list, browser, raised, empty_pages,
                   render_timeouts, cands, failed, before, detail_open, nav_tries>>

PracujPL_parse ==
    /\ scraper = "PracujPL" /\ pc = "parse"
    /\ IF ~(Len(job_list) < results_wanted /\ current_page_num <= max_page_num)
       THEN /\ result' = job_list
            /\ pc' = "done"
            /\ reason' = PracujPL_reason(job_list, results_wanted)
            /\ UNCHANGED <<job_list, current_page_num, empty_pages, cands,
                           failed, before, faults>>
       ELSE \E bad \in SUBSET (1..Len(Content(current_page_num))) :
              LET jobs == PracujPL_parse_jobs_from_page(current_page_num, bad) IN
              /\ empty_pages' = IF Content(current_page_num) = <<>>
                                THEN empty_pages + 1 ELSE empty_pages
              /\ cands' = Len(Content(current_page_num))
              /\ failed' = Cardinality(bad)
              /\ before' = Len(job_list)
              /\ faults' = (faults \/ bad # {})
              /\ IF NotJobs(jobs)
                 THEN /\ result' = job_list
                      /\ pc' = "done"
                      /\ reason' = "exhausted"
                      /\ UNCHANGED <<job_list, current_page_num>>
                 ELSE /\ job_list' = Extend(job_list, jobs, results_wanted)
                      /\ IF PracujPL_more(current_page_num, max_page_num,
                                          job_list', results_wanted)
                         THEN /\ current_page_num' = current_page_num + 1
                              /\ pc' = "sleep"
                              /\ UNCHANGED <<result, reason>>
                         ELSE /\ result' = job_list'
                              /\ pc' = "done"
                              /\ reason' = PracujPL_reason(job_list', results_wanted)
                              /\ UNCHANGED current_page_num
    /\ UNCHANGED <<request, seen, arb, pace, browser, raised, fetched, render_timeouts,
                   max_page_num, detail_open, nav_tries, blocked_page>>

PracujPL_sleep ==
    /\ scraper = "PracujPL" /\ pc = "sleep"
    /\ PacingSleep
    /\ pc' = "request"
    /\ UNCHANGED <<request, seen, stats, arb, job_list, current_page_num, browser,
                   raised, result, max_page_num, detail_open, nav_tries, faults,
                   blocked_page, reason>>

PracujPL_next_request ==
    /\ scraper = "PracujPL" /\ pc = "request"
    /\ \E out \in RequestOutcomes :
         /\ fetched' = Append(fetched, current_page_num)
         /\ faults' = (faults \/ out # "ok")
         /\ blocked_page' = IF out = "blocked" THEN current_page_num
                             ELSE blocked_page
         /\ IF PracujPL_no_response(out)
            THEN /\ result' = job_list
                 /\ pc' = "done"
                 /\ reason' = "aborted"
            ELSE /\ pc' = "parse"
                 /\ UNCHANGED <<result, reason>>
    /\ NotePace(0)
    /\ UNCHANGED <<request, seen, arb, job_list, current_page_num, browser, raised,
                   empty_pages, render_timeouts, cands, failed, before,
                   max_page_num, detail_open, nav_tries>>

\* ---- Upwork ----

\* the structuring service called whatever the page fetch gave
Upwork_service_calls_always(fc) == 1

\* calls of _process_with_gemini in one _async_scrape: it follows
\* _scrape_with_firecrawl, which raises when the fetch fails
Upwork_service_calls(fc) == IF fc = "ok" THEN 1 ELSE 0

\* _convert_to_job_posts: a listing whose conversion raises is skipped
Upwork_convert_to_job_posts(job_listings, bad) == Posts(1, job_listings, bad)

\* the JobResponse of _async_scrape: every converted post; an exception of
\* the page fetch or of the structuring service gives the empty response
Upwork_response(fc, gm, bad) ==
    IF fc # "ok" \/ gm # "ok" THEN <<>>
    ELSE Upwork_convert_to_job_posts(Content(1), bad)

Upwork_async_scrape ==
    /\ scraper = "Upwork" /\ pc = "start"
    /\ \E fc \in {"ok", "error"}, gm \in {"ok", "error", "empty"},
          bad \in SUBSET (1..Len(Content(1))) :
         /\ job_list' = Upwork_response(fc, gm, bad)
         /\ result' = job_list'
         /\ fetched' = Append(fetched, 1)
         /\ empty_pages' = IF fc = "ok" /\ (gm = "empty" \/ (gm = "ok" /\ Content(1) = <<>>))
                           THEN empty_pages + 1 ELSE empty_pages
         /\ cands' = IF fc = "ok" /\ gm = "ok" THEN Len(Content(1)) ELSE 0
         /\ failed' = IF fc = "ok" /\ gm = "ok" THEN Cardinality(bad) ELSE 0
         /\ before' = 0
         /\ faults' = (faults \/ fc # "ok" \/ gm # "ok" \/ bad # {})
         /\ reason' = IF fc = "error" \/ gm = "error" THEN "aborted"
                       ELSE IF Len(result') >= results_wanted THEN "success"
                       ELSE "exhausted"
         /\ delegated' = [fetch |-> fc,
                          service |-> IF fc = "ok" THEN gm ELSE "none",
                          calls |-> Upwork_service_calls(fc)]
    /\ NotePace(0)
    /\ pc' = "done"
    /\ UNCHANGED <<request, max_reported, arb, current_page_num, browser, raised,
                   render_timeouts, max_page_num, detail_open, nav_tries,
                   blocked_page>>

\* ---- Arbetsformedlingen ----

\* a wait that could succeed whatever the page shows
ListingWaitOutcomes_unchecked(v) == {"ok", "timeout", "error"}

\* the wait for the result-card selector at the top of a card: it cannot
\* succeed while the page shows something else than the listing
ListingWaitOutcomes(v) ==
    IF v = "listing" THEN {"ok", "timeout", "error"} ELSE {"timeout", "error"}

\* `continue` in place of the `break`
Arb_continue_on_lost == FALSE

\* `break` of the card loop after a failed restoration (False: `continue`)
Arb_break_on_lost == TRUE

\* line 229: `sleep(random.uniform(0.5, 1.5))`: the shortest it lasts, in
\* ticks
BackDelay == 1

\* what go_back and the wait for the cards in a handler can do
BackOutcomes == {"ok", "goback_fail", "wait_fail"}

\* the two `except` handlers of the card loop (they are the same code): when
\* page.url is neither the search page nor under /platsbanken/annonser, go
\* back and wait for the cards; if that fails leave the card loop, else go on
\* with the next card.  viewNow: what the page shows when the handler runs;
\* the detail URL of a card may itself lie under /platsbanken/annonser
Arb_recover(viewNow) ==
    \/ \* page.url is a detail URL outside /platsbanken/annonser: go back
       /\ viewNow = "detail"
       /\ \E back \in BackOutcomes :
            IF back = "ok"
            THEN /\ view' = "listing"
                 /\ i' = i + 1
                 /\ pc' = "card"
                 /\ UNCHANGED nav_lost
            ELSE /\ view' = IF back = "wait_fail" THEN "listing" ELSE "detail"
                 /\ nav_lost' = TRUE
                 /\ IF Arb_break_on_lost
                    THEN pc' = "after" /\ UNCHANGED i
                    ELSE pc' = "card" /\ i' = i + 1
    \/ \* page.url is the listing, or a detail URL under
       \* /platsbanken/annonser: no go_back, `continue`
       /\ view' = viewNow
       /\ i' = i + 1
       /\ pc' = "card"
       /\ UNCHANGED nav_lost

Arb_launch ==
    /\ scraper = "Arbetsformedlingen" /\ pc = "start"
    /\ browser' = "open"
    /\ pc' = "search"
    /\ UNCHANGED <<request, seen, stats, arb, pace, job_list, current_page_num, raised,
                   result, max_page_num, detail_open, nav_tries, faults,
                   blocked_page, reason>>

\* lines 84-117: open the search page, submit the search, wait for the cards.
\* Only the wait is guarded, and only against a timeout.
Arb_search ==
    /\ scraper = "Arbetsformedlingen" /\ pc = "search"
    /\ \E out \in (IF Content(1) = <<>> THEN {"error", "timeout"}
                   ELSE {"ok", "error", "timeout"}) :
         /\ fetched' = Append(fetched, 1)
         /\ faults' = (faults \/ out = "error" \/ (out = "timeout" /\ Content(1) # <<>>))
         /\ empty_pages' = IF out = "timeout" /\ Content(1) = <<>>
                           THEN empty_pages + 1 ELSE empty_pages
         /\ render_timeouts' = IF out = "timeout" /\ Content(1) # <<>>
                               THEN Append(render_timeouts, 1) ELSE render_timeouts
         \* line 111: `sleep(2)` once the cards are there
         /\ NotePace(IF out = "ok" THEN Ticks(2) ELSE 0)
         /\ CASE out = "ok" ->
                   /\ view' = "listing"
                   /\ current_page_num' = 1
                   /\ pc' = "page"
                   /\ UNCHANGED <<browser, raised, result, reason>>
              [] out = "timeout" ->
                   /\ browser' = "closed"
                   /\ result' = <<>>
                   /\ pc' = "done"
                   /\ reason' = EndReason(Content(1), out)
                   /\ UNCHANGED <<view, current_page_num, raised>>
              [] out = "error" ->
                   /\ raised' = TRUE
                   /\ pc' = "done"
                   /\ reason' = "aborted"
                   /\ UNCHANGED <<view, current_page_num, browser, result>>
    /\ UNCHANGED <<request, seen, job_list, cands, failed, before, max_page_num,
                   detail_open, nav_tries, job_card_locators, i, company_name,
                   nav_lost, blocked_page>>

\* lines 118-146: loop condition, navigation to page n > 1, listing the cards
Arb_page ==
    /\ scraper = "Arbetsformedlingen" /\ pc = "page"
    /\ IF ~(Len(job_list) < results_wanted)
       THEN /\ pc' = "close"
            /\ reason' = "success"
            /\ UNCHANGED <<stats, arb, pace, raised, faults>>
       ELSE \E out \in (IF current_page_num > 1
                        THEN WaitOutcomes(Content(current_page_num)) \cup {"query_error"}
                        ELSE {"ok", "vanished", "query_error"}) :
            /\ out = "query_error" => Content(current_page_num) # <<>>
            /\ fetched' = IF current_page_num > 1
                          THEN Logged(fetched, current_page_num) ELSE fetched
            /\ empty_pages' = IF IsEmptyPage(Content(current_page_num), out)
                              THEN empty_pages + 1 ELSE empty_pages
            /\ render_timeouts' = IF IsRenderTimeout(Content(current_page_num), out)
                                  THEN Append(render_timeouts, current_page_num)
                                  ELSE render_timeouts
            /\ before' = Len(job_list)
            /\ faults' = (faults \/ (out # "ok" /\ ~(out = "timeout"
                                       /\ Content(current_page_num) = <<>>)))
            /\ failed' = 0
            \* line 132: `sleep(1)` once the cards of page n > 1 are there
            /\ IF current_page_num > 1
               THEN NotePace(IF out \in {"ok", "vanished", "query_error"}
                             THEN Ticks(1) ELSE 0)
               ELSE UNCHANGED pace
            /\ CASE out = "ok" ->
                      /\ job_card_locators' = Content(current_page_num)
                      /\ cands' = Len(Content(current_page_num))
                      /\ i' = 1
                      /\ view' = "listing"
                      /\ nav_lost' = FALSE
                      /\ pc' = "card"
                      /\ UNCHANGED <<raised, company_name, reason>>
                 [] out = "query_error" ->
                      /\ raised' = TRUE
                      /\ pc' = "done"
                      /\ cands' = 0
                      /\ reason' = "aborted"
                      /\ UNCHANGED arb
                 [] OTHER ->
                      /\ job_card_locators' = <<>>
                      /\ cands' = 0
                      /\ pc' = "close"
                      /\ reason' = EndReason(Content(current_page_num), out)
                      /\ UNCHANGED <<raised, i, view, company_name, nav_lost>>
    /\ UNCHANGED <<request, seen, job_list, current_page_num, browser, result,
                   max_page_num, detail_open, nav_tries, blocked_page>>

\* lines 148-199: quota check, listing wait, reading the card, opening the
\* detail page
Arb_card ==
    /\ scraper = "Arbetsformedlingen" /\ pc = "card"
    /\ IF i > Len(job_card_locators) \/ Len(job_list) >= results_wanted
       THEN /\ pc' = "after"
            /\ UNCHANGED <<arb, pace, failed, raised, nav_tries>>
       ELSE \E w \in ListingWaitOutcomes(view) :
            CASE w = "timeout" ->
                   \* line 157: leave the card loop
                   /\ nav_lost' = TRUE
                   /\ pc' = "after"
                   /\ UNCHANGED <<job_card_locators, i, view, company_name,
                                  failed, raised, nav_tries, pace>>
              [] w = "error" ->
                   \* not a timeout: no handler
                   /\ raised' = TRUE
                   /\ pc' = "done"
                   /\ UNCHANGED <<arb, pace, failed, nav_tries>>
              [] w = "ok" ->
                   \/ \* reading title or link raises, or there is no href:
                      \* the page still shows the listing, the card is skipped
                      /\ failed' = failed + 1
                      /\ i' = i + 1
                      /\ pc' = "card"
                      /\ UNCHANGED <<job_card_locators, view, company_name,
                                     nav_lost, raised, nav_tries, pace>>
                   \/ \* lines 173-195 assign company_name only when the card
                      \* has no div.pb-location
                      /\ \E hasLocation \in BOOLEAN :
                           company_name' =
                               IF ~hasLocation THEN "own"
                               ELSE IF company_name = "unbound" THEN "unbound"
                               ELSE "stale"
                      /\ UNCHANGED <<job_card_locators, raised, waits>>
                      \* line 199: the detail page is fetched
                      /\ hasty' = (hasty \/ Hasty(idle))
                      /\ idle' = 0
                      /\ \/ \* page.goto(detail_url) succeeds
                            /\ view' = "detail"
                            /\ pc' = "detail"
                            /\ UNCHANGED <<i, nav_lost, failed, nav_tries>>
                         \/ \* page.goto(detail_url) raises, before or after
                            \* the navigation was committed
                            /\ failed' = failed + 1
                            /\ nav_tries' = 1
                            /\ \E viewNow \in {"listing", "detail"} :
                                 Arb_recover(viewNow)
    /\ UNCHANGED <<request, seen, job_list, current_page_num, browser, result,
                   fetched, empty_pages, render_timeouts, cands, before,
                   max_page_num, detail_open, blocked_page>>
    /\ faults' = (faults \/ failed' > failed \/ raised' \/ nav_lost')
    /\ reason' = IF raised' THEN "aborted" ELSE reason

\* lines 201-229: description, the JobPost, back to the listing
Arb_detail ==
    /\ scraper = "Arbetsformedlingen" /\ pc = "detail"
    /\ IF company_name = "unbound"
       THEN \* line 212 raises, the page shows the detail page
            /\ failed' = failed + 1
            /\ UNCHANGED <<job_list, idle>>
            /\ Arb_recover("detail")
       ELSE /\ job_list' = Append(job_list,
                  Post(current_page_num, i, job_card_locators[i], company_name))
            /\ \/ \* go_back and the wait for the cards succeed, short sleep
                  /\ view' = "listing"
                  /\ i' = i + 1
                  /\ pc' = "card"
                  /\ idle' = idle + BackDelay
                  /\ UNCHANGED <<nav_lost, failed>>
               \/ \* one of them raises
                  /\ failed' = failed + 1
                  /\ UNCHANGED idle
                  /\ \E viewNow \in {"listing", "detail"} : Arb_recover(viewNow)
    /\ UNCHANGED <<request, seen, current_page_num, browser, raised, result, fetched,
                   empty_pages, render_timeouts, cands, before, max_page_num,
                   detail_open, nav_tries, job_card_locators, company_name,
                   waits, hasty, blocked_page, reason>>
    /\ faults' = (faults \/ failed' > failed)

\* lines 255-265: after the cards of a page
Arb_after ==
    /\ scraper = "Arbetsformedlingen" /\ pc = "after"
    /\ IF Len(job_list) >= results_wanted \/ job_card_locators = <<>>
       THEN /\ pc' = "close"
            /\ reason' = IF Len(job_list) >= results_wanted
                          THEN "success" ELSE "exhausted"
            /\ UNCHANGED current_page_num
       ELSE /\ pc' = "sleep"
            /\ current_page_num' = PageAfter(current_page_num)
            /\ UNCHANGED reason
    /\ UNCHANGED <<request, seen, stats, arb, pace, job_list, browser, raised, result,
                   max_page_num, detail_open, nav_tries, faults, blocked_page>>

Arb_sleep ==
    /\ scraper = "Arbetsformedlingen" /\ pc = "sleep"
    /\ PacingSleep
    /\ pc' = "page"
    /\ UNCHANGED <<request, seen, stats, arb, job_list, current_page_num, browser,
                   raised, result, max_page_num, detail_open, nav_tries, faults,
                   blocked_page, reason>>

Arb_close ==
    /\ scraper = "Arbetsformedlingen" /\ pc = "close"
    /\ browser' = "closed"
    /\ result' = job_list
    /\ pc' = "done"
    /\ UNCHANGED <<request, seen, stats, arb, pace, job_list, current_page_num, raised,
                   max_page_num, detail_open, nav_tries, faults, blocked_page,
                   reason>>

Next ==
    \/ InfoJobs_launch \/ InfoJobs_iteration \/ InfoJobs_sleep \/ InfoJobs_close
    \/ ProfessionHU_launch \/ ProfessionHU_iteration \/ ProfessionHU_sleep
    \/ ProfessionHU_close
    \/ PosaoHR_launch \/ PosaoHR_iteration \/ PosaoHR_sleep \/ PosaoHR_close
    \/ PracujPL_first_request \/ PracujPL_parse \/ PracujPL_sleep
    \/ PracujPL_next_request
    \/ Upwork_async_scrape
    \/ Arb_launch \/ Arb_search \/ Arb_page \/ Arb_card \/ Arb_detail
    \/ Arb_after \/ Arb_sleep \/ Arb_close

Spec == Init /\ [][Next]_vars

\* ---- the same request crawled again ----

\* scrape() is called a second time with the same input against the same
\* site, by the same Python process or by a new one (which draws its own
\* string-hash seed); the crawl starts from fresh locals
Rerun ==
    /\ pc = "done" /\ run = 1
    /\ run' = 2
    /\ prev' = [jobs |-> result, raised |-> raised, reason |-> reason]
    /\ hash_seed' \in HashSeeds
    /\ pc' = "start"
    /\ waits' = <<>>
    /\ idle' = 0
    /\ hasty' = FALSE
    /\ blocked_page' = 0
    /\ reason' = "none"
    /\ job_list' = <<>>
    /\ current_page_num' = 1
    /\ browser' = "none"
    /\ raised' = FALSE
    /\ result' = <<>>
    /\ fetched' = <<>>
    /\ empty_pages' = 0
    /\ render_timeouts' = <<>>
    /\ cands' = 0
    /\ failed' = 0
    /\ before' = 0
    /\ max_page_num' = 1
    /\ detail_open' = 0
    /\ job_card_locators' = <<>>
    /\ i' = 1
    /\ view' = "blank"
    /\ company_name' = "unbound"
    /\ nav_lost' = FALSE
    /\ nav_tries' = 0
    /\ faults' = FALSE
    /\ delegated' = None
    /\ max_reported' = 0
    /\ UNCHANGED <<scraper, results_wanted, listing, endless, delay, band_delay, card,
                   extracted, shared, awaits>>

NextTwice == Next \/ Rerun

SpecTwice == Init /\ [][NextTwice]_vars

\* ---- field extraction of one card ----

\* a str is the sequence of its parts, None the single part Null
Null == "null"
UrlNone == <<Null>>
base_url == <<"base">>

\* f"{x}"
Str(x) == IF x = UrlNone THEN <<"None">> ELSE x

\* the href attribute of the link of card c
Href(c) == CASE c.href = "none" -> UrlNone
             [] c.href = "relative" -> <<"/path">>
             [] c.href = "absolute" -> <<"http", "/path">>

\* the inner text of the title element of card c
Text(c) == IF c.title = "text" THEN "text" ELSE ""

\* href.startswith("http")
startswith_http(h) == h[1] = "http"

\* urljoin(base, href)
urljoin(b, h) == IF startswith_http(h) THEN h ELSE b \o h

\* JobPost(...): a post needs a title and a job URL; without one of them the
\* construction raises, which every caller turns into None
JobPost(title, company, city, job_url) ==
    IF title = Null \/ job_url = UrlNone THEN None
    ELSE [title |-> title, company_name |-> company, city |-> city,
          job_url |-> job_url]

InfoJobs_extract_job_info(c) ==
    LET title == IF c.title = "absent" THEN Null ELSE Text(c)
        href == IF c.title = "absent" THEN UrlNone ELSE Href(c)
        job_url == IF href # UrlNone /\ startswith_http(href) THEN href
                   ELSE base_url \o Str(href)
        company == IF c.company THEN "text" ELSE "Unknown"
        location == IF c.location THEN "text" ELSE "Spain"
    IN JobPost(title, company, location, job_url)

ProfessionHU_extract_job_info(c) ==
    IF c.title = "absent" THEN None
    ELSE LET relative_url == Href(c)
             job_url == IF relative_url # UrlNone
                        THEN base_url \o Str(relative_url) ELSE UrlNone
             company_name_ == IF c.company THEN "text" ELSE Null
             location == IF c.location THEN "text" ELSE Null
         IN IF job_url = UrlNone THEN None
            ELSE JobPost(Text(c), company_name_, location, job_url)

PracujPL_extract_job_info(c) ==
    IF ~c.offer_id THEN None
    ELSE IF c.title = "absent" THEN None
    ELSE IF Text(c) = "" THEN None
    ELSE LET company == IF c.company THEN "text" ELSE "N/A"
             location == IF c.location THEN "text" ELSE "N/A"
             job_url == IF Href(c) # UrlNone THEN urljoin(base_url, Href(c))
                        ELSE base_url \o <<"/oferta/", "offer_id">>
         IN JobPost(Text(c), company, location, job_url)

\* lines 88-91 and _process_job_detail: the card is the link itself, its
\* text the title
PosaoHR_extract_job_info(c) ==
    LET href == Href(c) IN
    IF href = UrlNone THEN None
    ELSE LET job_url == IF startswith_http(href) THEN href ELSE base_url \o href
         IN JobPost(Text(c), "", "", job_url)

\* lines 164-221; cn: the local company_name when the card is read
Arb_extract_job_info(c, cn) ==
    IF c.title = "absent" THEN None
    ELSE LET link == Href(c) IN
         IF link = UrlNone THEN None
         ELSE LET detail_url == IF link[1] = "/path" THEN base_url \o link ELSE link
                  company_raw == IF c.company THEN "text" ELSE "N/A"
                  location_text == IF c.location THEN "text" ELSE "N/A"
              IN IF c.location
                 THEN IF cn = "unbound" THEN None
                      ELSE JobPost(Text(c), "stale", location_text, detail_url)
                 ELSE JobPost(Text(c), company_raw, location_text, detail_url)

\* one listing of the structuring service turned into a post; the service
\* gives null for what it did not find and the link as it read it
Upwork_convert_listing(c) ==
    LET job_title == IF c.title = "absent" THEN Null ELSE Text(c)
        job_company == IF c.company THEN "text" ELSE "Unknown Client"
        job_city == IF c.location THEN "text" ELSE Null
    IN JobPost(job_title, job_company, job_city, Href(c))

extract_job_info(s, c) ==
    CASE s = "InfoJobs" -> InfoJobs_extract_job_info(c)
      [] s = "ProfessionHU" -> ProfessionHU_extract_job_info(c)
      [] s = "PracujPL" -> PracujPL_extract_job_info(c)
      [] s = "PosaoHR" -> PosaoHR_extract_job_info(c)
      [] s = "Arbetsformedlingen" -> Arb_extract_job_info(c, company_name)
      [] s = "Upwork" -> Upwork_convert_listing(c)

InitFields ==
    /\ scraper \in Scrapers
    /\ results_wanted = 1
    /\ listing = SiteOf([p \in Pages |-> 0], 1)
    /\ endless = FALSE
    /\ pc = "extract"
    /\ delay = 2
    /\ band_delay = 3
    /\ hash_seed = 1
    /\ run = 1
    /\ prev = <<>>
    /\ card \in Cards
    /\ extracted = None
    /\ Alone
    /\ NoFetches
    /\ Unstarted

Extract ==
    /\ pc = "extract"
    /\ extracted' = extract_job_info(scraper, card)
    /\ pc' = "extracted"
    /\ UNCHANGED <<scraper, results_wanted, listing, endless, delay, band_delay,
                   hash_seed, run, prev, card, shared, awaits, seen, stats, arb, pace,
                   job_list,
                   current_page_num, browser, raised, result, max_page_num,
                   detail_open, nav_tries, faults, blocked_page, reason>>

SpecFields == InitFields /\ [][Extract]_vars

\* ---- two threads calling scrape() on one scraper object ----

Callers == {"A", "B"}
Terms   == {"t1", "t2"}

\* the ScraperInput objects a caller can pass
ScraperInputs == [search_term : Terms, results_wanted : 1..MaxQuota]

\* the crawl of every class but Upwork reads the quota into a local when it
\* starts
ReadsQuota(s) == s # "Upwork"

\* listing fetches one crawl makes at most
MaxFetches(s) == IF s = "Upwork" THEN 1 ELSE MaxPage

\* everything but the scraper object the threads share
crawl == <<scraper, results_wanted, listing, endless, delay, band_delay, hash_seed,
           run, prev, card, extracted, pc, stats, arb, pace, job_list,
           current_page_num, browser, raised, result, max_page_num,
           detail_open, nav_tries, faults, blocked_page, reason, awaits,
           seen>>

\* a scraper object was constructed; two threads are about to call scrape()
\* on it, each with a ScraperInput of its own
InitShared ==
    /\ scraper \in Scrapers
    /\ results_wanted = 1
    /\ listing = SiteOf([p \in Pages |-> 0], 1)
    /\ endless = FALSE
    /\ pc = "threads"
    /\ delay = 2
    /\ band_delay = 3
    /\ hash_seed = 1
    /\ run = 1
    /\ prev = <<>>
    /\ card = NoCard
    /\ extracted = None
    /\ NoFetches
    /\ Unstarted
    /\ self_scraper_input = None
    /\ threads \in {t \in [Callers -> [pc : {"call"},
                                       scraper_input : ScraperInputs,
                                       results_wanted : {0},
                                       terms : {<<>>}]] :
                      t["A"].scraper_input # t["B"].scraper_input}

\* scrape(): `self.scraper_input = scraper_input`
Thread_scrape(c) ==
    /\ threads[c].pc = "call"
    /\ self_scraper_input' = threads[c].scraper_input
    /\ threads' = [threads EXCEPT ![c].pc = "start"]
    /\ UNCHANGED crawl

\* `results_wanted = self.scraper_input.results_wanted or 10`
Thread_start(c) ==
    /\ threads[c].pc = "start"
    /\ threads' = [threads EXCEPT
                     ![c].pc = "loop",
                     ![c].results_wanted =
                         IF ReadsQuota(scraper)
                         THEN self_scraper_input.results_wanted ELSE 0]
    /\ UNCHANGED <<crawl, self_scraper_input>>

\* the fetch of one listing page: the URL or the search form is filled with
\* `self.scraper_input.search_term`
Thread_fetch(c) ==
    /\ threads[c].pc = "loop"
    /\ Len(threads[c].terms) < MaxFetches(scraper)
    /\ threads' = [threads EXCEPT
                     ![c].terms = Append(@, self_scraper_input.search_term)]
    /\ UNCHANGED <<crawl, self_scraper_input>>

\* the crawl ends and scrape() returns
Thread_return(c) ==
    /\ threads[c].pc = "loop"
    /\ threads[c].terms # <<>>
    /\ threads' = [threads EXCEPT ![c].pc = "returned"]
    /\ UNCHANGED <<crawl, self_scraper_input>>

NextShared ==
    \E c \in Callers :
        \/ Thread_scrape(c)
        \/ Thread_start(c)
        \/ Thread_fetch(c)
        \/ Thread_return(c)

SpecShared == InitShared /\ [][NextShared]_vars

\* ---- a crawl at the grain of its fetches ----

\* the classes that open the detail page of every card
DetailScrapers == {"PosaoHR", "Arbetsformedlingen"}

\* a fetch: what is loaded ("listing", "detail", "back": go_back to the
\* listing, "service": the request to the structuring service), the page
\* counter, the card (0: none)
Fetch(kind, p, k) == <<kind, p, k>>

\* only the listing navigation is awaited
Awaited_listing_only(f) == f[1] = "listing"

\* every navigation is called with `await` in the one coroutine of the crawl
\* (no task is created, nothing is gathered), and the HTTP calls of PracujPL
\* and Upwork block: the crawl goes on when the call has completed
Awaited(f) == TRUE

\* the listing the fetch for page counter p loads
Aw_listing(p) == IF scraper = "PosaoHR" THEN PosaoHR_loaded(p) ELSE Content(p)

\* the condition of the page loop (Upwork has no loop: one pass)
Aw_continue ==
    CASE scraper = "Upwork" -> fetched = <<>>
      [] scraper = "PracujPL" -> /\ Len(job_list) < results_wanted
                                 /\ current_page_num <= max_page_num
      [] OTHER -> Len(job_list) < results_wanted

\* what the steps of SpecAwait leave alone
aw_rest == <<scraper, results_wanted, listing, endless, delay, band_delay, hash_seed,
             run, prev, card, extracted, shared, browser, raised, empty_pages,
             render_timeouts, cands, failed, before, detail_open, view,
             company_name, nav_lost, nav_tries, faults, pace, blocked_page,
             reason, seen>>

InitAwait ==
    /\ scraper \in Scrapers
    /\ results_wanted \in 1..MaxQuota
    /\ listing \in Sites
    /\ endless = FALSE
    /\ pc = "head"
    /\ delay = 2
    /\ band_delay = 3
    /\ hash_seed = 1
    /\ run = 1
    /\ prev = <<>>
    /\ card = NoCard
    /\ extracted = None
    /\ Alone
    /\ NoFetches
    /\ Unstarted

\* the loop condition, then the navigation to (the request of) the listing
Aw_head ==
    /\ pc = "head"
    /\ IF Aw_continue
       THEN LET f == Fetch("listing", current_page_num, 0) IN
            /\ in_flight' = in_flight \cup {f}
            /\ fetched' = Append(fetched, current_page_num)
            /\ pc' = IF Awaited(f) THEN "listing" ELSE "card"
            /\ job_card_locators' = <<>>
            /\ i' = 1
            /\ job_posts' = <<>>
            /\ UNCHANGED result
       ELSE /\ pc' = "done"
            /\ result' = job_list
            /\ UNCHANGED <<in_flight, fetched, job_card_locators, i, job_posts>>
    /\ UNCHANGED <<aw_rest, job_list, current_page_num, max_page_num, pages_done>>

\* the listing fetch completes: the cards are there, or the call raised
\* (timed out) and the page gives nothing.  Upwork then sends the page to the
\* structuring service; PracujPL reads the page count from its first page
Aw_listing_done ==
    /\ pc = "listing"
    /\ LET f == Fetch("listing", current_page_num, 0) IN
       /\ f \in in_flight
       /\ \E ok \in BOOLEAN,
             reported \in (IF scraper = "PracujPL" /\ current_page_num = 1
                           THEN 0..MaxPage ELSE {0}) :
            /\ in_flight' = (in_flight \ {f}) \cup
                            (IF ok /\ scraper = "Upwork"
                             THEN {Fetch("service", 1, 0)} ELSE {})
            /\ job_card_locators' = IF ok THEN Aw_listing(current_page_num)
                                    ELSE <<>>
            /\ max_page_num' = IF ok /\ scraper = "PracujPL" /\ current_page_num = 1
                               THEN PracujPL_get_max_page_number(reported)
                               ELSE max_page_num
            /\ pc' = IF ~ok THEN "aggregate"
                     ELSE IF scraper = "Upwork" THEN "service" ELSE "card"
    /\ UNCHANGED <<aw_rest, job_list, current_page_num, result, fetched, i,
                   pages_done, job_posts>>

\* Upwork: the structuring service answers, or its call raises
Aw_service_done ==
    /\ pc = "service"
    /\ LET f == Fetch("service", 1, 0) IN
       /\ f \in in_flight
       /\ \E ok \in BOOLEAN :
            /\ in_flight' = in_flight \ {f}
            /\ job_card_locators' = IF ok THEN job_card_locators ELSE <<>>
            /\ pc' = IF ok THEN "card" ELSE "aggregate"
    /\ UNCHANGED <<aw_rest, job_list, current_page_num, result, fetched,
                   max_page_num, i, pages_done, job_posts>>

\* what follows the detail page of card i: the post is kept when the page
\* loaded; Arbetsformedlingen appends it to job_list and goes back to the
\* listing (its handlers go back after a failure when the page shows the
\* detail URL).  flying: the fetches in flight when the crawl goes on
Aw_after_detail(ok, flying) ==
    LET post == Post(current_page_num, i, job_card_locators[i], "own") IN
    IF scraper = "PosaoHR"
    THEN /\ job_posts' = IF ok THEN Append(job_posts, post) ELSE job_posts
         /\ i' = i + 1
         /\ pc' = "card"
         /\ in_flight' = flying
         /\ UNCHANGED job_list
    ELSE /\ job_list' = IF ok THEN Append(job_list, post) ELSE job_list
         /\ UNCHANGED job_posts
         /\ \E back \in (IF ok THEN {TRUE} ELSE BOOLEAN) :
              IF back
              THEN LET b == Fetch("back", current_page_num, i) IN
                   /\ in_flight' = flying \cup {b}
                   /\ IF Awaited(b)
                      THEN pc' = "back" /\ UNCHANGED i
                      ELSE pc' = "card" /\ i' = i + 1
              ELSE /\ in_flight' = flying
                   /\ pc' = "card"
                   /\ i' = i + 1

\* the card loop: the next card is read; PosaoHR and Arbetsformedlingen
\* navigate to its detail page, the others extract it from the listing
Aw_card ==
    /\ pc = "card"
    /\ IF \/ i > Len(job_card_locators)
          \/ (scraper = "Arbetsformedlingen" /\ Len(job_list) >= results_wanted)
       THEN /\ pc' = "aggregate"
            /\ UNCHANGED <<job_list, in_flight, i, job_posts>>
       ELSE IF scraper \in DetailScrapers
            THEN LET f == Fetch("detail", current_page_num, i) IN
                 IF Awaited(f)
                 THEN /\ in_flight' = in_flight \cup {f}
                      /\ pc' = "detail"
                      /\ UNCHANGED <<job_list, i, job_posts>>
                 ELSE Aw_after_detail(TRUE, in_flight \cup {f})
            ELSE \E ok \in BOOLEAN :
                 /\ job_posts' = IF ok
                                 THEN Append(job_posts,
                                        Post(current_page_num, i,
                                             job_card_locators[i], "own"))
                                 ELSE job_posts
                 /\ i' = i + 1
                 /\ pc' = "card"
                 /\ UNCHANGED <<job_list, in_flight>>
    /\ UNCHANGED <<aw_rest, current_page_num, result, fetched, max_page_num,
                   job_card_locators, pages_done>>

\* the detail navigation completes or raises
Aw_detail_done ==
    /\ pc = "detail"
    /\ LET f == Fetch("detail", current_page_num, i) IN
       /\ f \in in_flight
       /\ \E ok \in BOOLEAN : Aw_after_detail(ok, in_flight \ {f})
    /\ UNCHANGED <<aw_rest, current_page_num, result, fetched, max_page_num,
                   job_card_locators, pages_done>>

\* Arbetsformedlingen: go_back and the wait for the cards complete, or one of
\* them raises and the card loop is left
Aw_back_done ==
    /\ pc = "back"
    /\ LET b == Fetch("back", current_page_num, i) IN
       /\ b \in in_flight
       /\ in_flight' = in_flight \ {b}
       /\ \E ok \in BOOLEAN :
            IF ok THEN pc' = "card" /\ i' = i + 1
            ELSE pc' = "aggregate" /\ UNCHANGED i
    /\ UNCHANGED <<aw_rest, job_list, current_page_num, result, fetched,
                   max_page_num, job_card_locators, pages_done, job_posts>>

\* after the cards of the page: the posts are added to job_list, the loop is
\* left or the page counter advanced
Aw_aggregate ==
    /\ pc = "aggregate"
    /\ CASE scraper = "Arbetsformedlingen" ->
              /\ pages_done' = pages_done \cup {current_page_num}
              /\ UNCHANGED job_list
              /\ IF Len(job_list) >= results_wanted \/ job_card_locators = <<>>
                 THEN /\ pc' = "done"
                      /\ result' = job_list
                      /\ UNCHANGED current_page_num
                 ELSE /\ pc' = "sleep"
                      /\ current_page_num' = current_page_num + 1
                      /\ UNCHANGED result
         [] scraper = "Upwork" ->
              /\ pages_done' = pages_done \cup {current_page_num}
              /\ job_list' = job_posts
              /\ result' = job_posts
              /\ pc' = "done"
              /\ UNCHANGED current_page_num
         [] OTHER ->
              IF NotJobs(job_posts)
              THEN /\ pc' = "done"
                   /\ result' = job_list
                   /\ UNCHANGED <<job_list, current_page_num, pages_done>>
              ELSE /\ job_list' = IF scraper = "ProfessionHU"
                                  THEN ProfessionHU_append(job_list, job_posts,
                                                           results_wanted)
                                  ELSE Extend(job_list, job_posts, results_wanted)
                   /\ pages_done' = pages_done \cup {current_page_num}
                   /\ IF scraper = "PracujPL"
                         /\ ~PracujPL_more(current_page_num, max_page_num,
                                           job_list', results_wanted)
                      THEN /\ pc' = "done"
                           /\ result' = job_list'
                           /\ UNCHANGED current_page_num
                      ELSE /\ pc' = "sleep"
                           /\ current_page_num' = current_page_num + 1
                           /\ UNCHANGED result
    /\ UNCHANGED <<aw_rest, fetched, max_page_num, job_card_locators, i,
                   in_flight, job_posts>>

\* the pacing sleep between two pages
Aw_sleep ==
    /\ pc = "sleep"
    /\ pc' = "head"
    /\ UNCHANGED <<aw_rest, job_list, current_page_num, result, fetched,
                   max_page_num, job_card_locators, i, awaits>>

NextAwait ==
    \/ Aw_head \/ Aw_listing_done \/ Aw_service_done \/ Aw_card
    \/ Aw_detail_done \/ Aw_back_done \/ Aw_aggregate \/ Aw_sleep

SpecAwait == InitAwait /\ [][NextAwait]_vars

\* ---- a request that leaves the quota unset ----

\* the 10 of `results_wanted or 10`
DefaultQuota == 10

\* `results_wanted = self.scraper_input.results_wanted or 10` (rw = 0: the
\* request leaves results_wanted unset)
results_wanted_or_10(rw) == IF rw > 0 THEN rw ELSE DefaultQuota

\* the classes that take the cards of a page in one step
UnsetScrapers == {"InfoJobs", "ProfessionHU", "PracujPL", "Upwork"}

\* a site with one results page that holds one job more than the default
\* quota
BigSite == SiteOf([p \in Pages |-> IF p = 1 THEN DefaultQuota + 1 ELSE 0], NumUrls)

InitUnset ==
    /\ scraper \in UnsetScrapers
    /\ results_wanted = results_wanted_or_10(0)
    /\ listing = BigSite
    /\ endless = FALSE
    /\ pc = "start"
    /\ delay = 2
    /\ band_delay = 3
    /\ hash_seed = 1
    /\ run = 1
    /\ prev = <<>>
    /\ card = NoCard
    /\ extracted = None
    /\ Alone
    /\ NoFetches
    /\ Unstarted

NextUnset ==
    \/ InfoJobs_launch \/ InfoJobs_iteration \/ InfoJobs_sleep \/ InfoJobs_close
    \/ ProfessionHU_launch \/ ProfessionHU_iteration \/ ProfessionHU_sleep
    \/ ProfessionHU_close
    \/ PracujPL_first_request \/ PracujPL_parse \/ PracujPL_sleep
    \/ PracujPL_next_request
    \/ Upwork_async_scrape

SpecUnset == InitUnset /\ [][NextUnset]_vars

\* ---- a crawl of a site that may never run out of pages ----

\* the crawl of Init, on a site that ends after MaxPage pages or that serves
\* its last page again for every later page number
InitEndless ==
    /\ scraper \in Scrapers
    /\ results_wanted \in 1..MaxQuota
    /\ listing \in Sites
    /\ endless \in BOOLEAN
    /\ pc = "start"
    /\ delay = 2
    /\ band_delay = 3
    /\ hash_seed = 1
    /\ run = 1
    /\ prev = <<>>
    /\ card = NoCard
    /\ extracted = None
    /\ Alone
    /\ NoFetches
    /\ Unstarted

\* the event loop runs the one coroutine of the crawl whenever it can take a
\* step: every await of the crawl has a timeout or returns
SpecEndless == InitEndless /\ [][Next]_vars /\ WF_vars(Next)

\* ---- properties ----

Urls_of(jobs) == {jobs[k].url : k \in 1..Len(jobs)}
Count(seq, x) == Cardinality({k \in 1..Len(seq) : seq[k] = x})
Returned == pc = "done" /\ ~raised

\* the site offers its records on successive pages followed by an empty page:
\* the pages with cards come first, and no URL is shown twice
NonEmptyPages == {p \in Pages : listing[p] # <<>>}
RECURSIVE SumLen(_)
SumLen(P) == IF P = {} THEN 0
             ELSE LET p == CHOOSE x \in P : TRUE IN Len(listing[p]) + SumLen(P \ {p})
Offered == SumLen(Pages)
SuccessivePages ==
    /\ \A p \in NonEmptyPages : \A r \in 1..p : r \in NonEmptyPages
    /\ \A p, r \in Pages : \A a \in 1..Len(listing[p]), b \in 1..Len(listing[r]) :
         listing[p][a] = listing[r][b] => (p = r /\ a = b)

\* C1: the JobResponse returned by scrape() never holds more records than the
\* requested quota, for every scraper.
C1_QuotaRespected == Returned => Len(result) <= results_wanted

\* C2: a job URL extracted more than once during a crawl appears exactly once
\* in the returned job list.
C2_UrlOnce ==
    Returned => \A a, b \in 1..Len(result) : result[a].url = result[b].url => a = b

\* C3: scrape() never raises to the caller, whatever navigation, wait, query
\* or extraction fails.
C3_NeverRaises == ~raised

\* C4: browser.close() has been executed whenever a browser-backed crawl has
\* ended, also when it ended with an exception.
C4_BrowserReleased ==
    (pc = "done" /\ scraper \in BrowserScrapers) => browser = "closed"

C6_RetriedBeforeDrop == nav_tries # 1

\* C7: a page whose listing container timed out is fetched a second time
\* (exactly once more) before the crawl goes on or ends.
C7_TimeoutRetriedOnce ==
    pc = "done" => \A k \in 1..Len(render_timeouts) :
                      Count(fetched, render_timeouts[k]) = 2

\* C8: when K < M of the M cards of a page fail extraction, the other M-K
\* records are accepted, all of them unless the remaining quota is smaller,
\* never more than M-K, and the crawl does not end with an error.
C8_GracefulDegradation ==
    (pc \in {"sleep", "close", "after", "done"} /\ failed < cands) =>
        /\ ~raised
        /\ Len(job_list) - before <= cands - failed
        /\ Len(job_list) - before >= Min(cands - failed, results_wanted - before)

\* C9: a site offering C unique extractable records on successive pages and
\* then an empty page, with no failure during the crawl, gives exactly
\* min(C, Q) records.  (For PracujPL the pagination element of the first page
\* is taken to report the pages that hold cards.)
C9_MinOfOfferedAndQuota ==
    (/\ Returned
     /\ ~faults
     /\ SuccessivePages
     /\ scraper = "PracujPL" => max_page_num >= Cardinality(NonEmptyPages))
    => Len(result) = Min(Offered, results_wanted)

\* C10: after the first listing page that loaded and held no cards, nothing
\* more is fetched, no second empty page is processed, the accumulated records
\* stay as they are and they are what the crawl returns.
C10_EmptyPageEnds ==
    [][empty_pages >= 1 =>
         /\ fetched' = fetched
         /\ empty_pages' = empty_pages
         /\ job_list' = job_list
         /\ pc' = "done" => (~raised' /\ result' = job_list)]_vars

\* an empty page ended a crawl that had accumulated records from two fetches
C10_Witness ==
    /\ pc = "done" /\ empty_pages = 1 /\ result # <<>> /\ Len(fetched) >= 2

\* every listing page of the site holds k cards and no URL is shown twice
EveryPageYields(k) ==
    /\ \A p \in Pages : Len(listing[p]) = k
    /\ \A p, r \in Pages : \A a \in 1..k, b \in 1..k :
         listing[p][a] = listing[r][b] => (p = r /\ a = b)

CeilDiv(a, b) == (a + b - 1) \div b

\* C11: when every page yields k unique extractable records and nothing
\* fails, a crawl with quota Q fetches exactly ceil(Q/k) listing pages and
\* returns exactly Q records.  (Q is at most what the pages of the site hold;
\* for PracujPL the pagination element reports all of them.)
C11_PagesForQuota ==
    \A k \in 1..MaxCards :
        (/\ Returned
         /\ ~faults
         /\ EveryPageYields(k)
         /\ results_wanted <= k * MaxPage
         /\ scraper = "PracujPL" => max_page_num = MaxPage)
        => /\ Len(fetched) = CeilDiv(results_wanted, k)
           /\ Len(result) = results_wanted

\* the records of job_list are in discovery order: page after page, and in
\* document order within a page
InDiscoveryOrder(jobs) ==
    \A a, b \in 1..Len(jobs) :
        a < b => \/ jobs[a].page < jobs[b].page
                 \/ (jobs[a].page = jobs[b].page /\ jobs[a].pos < jobs[b].pos)

IsPrefix(s, t) == Len(s) <= Len(t) /\ SubSeq(t, 1, Len(s)) = s

C13_AbortAfterThreeBlocks ==
    (pc = "done" /\ blocked_page # 0) => Count(fetched, blocked_page) = 3

\* C13 (amended): the first block signal on the request of page n aborts the
\* crawl (the request is not repeated); the crawl does not raise and returns
\* exactly the records accumulated from pages 1..n-1, none when n = 1.
C13_AbortOnFirstBlock ==
    blocked_page # 0 =>
        /\ pc = "done" /\ ~raised
        /\ Count(fetched, blocked_page) = 1
        /\ result = job_list
        /\ \A k \in 1..Len(result) : result[k].page < blocked_page
        /\ blocked_page = 1 => result = <<>>

\* the request of page 2 was blocked after page 1 had given records
C13_Witness == blocked_page = 2 /\ pc = "done" /\ result # <<>>

\* C14: between the fetch of listing page n and the fetch of page n+1 the
\* crawl makes exactly one pacing wait, of 2 to 5 seconds; page n+1 is never
\* fetched without it.
C14_PacedBetweenPages ==
    [][(fetched' # fetched /\ fetched # <<>>) =>
          (Len(waits) = 1 /\ waits[1] \in Ticks(2)..Ticks(5))]_vars

\* page 2 has been fetched after page 1
C14_Witness == Len(fetched) = 2 /\ fetched[1] = 1 /\ fetched[2] = 2

\* C15: any two consecutive fetch invocations (listing or detail navigation)
\* are at least the base delay of 2 seconds apart.
C15_BaseDelayBetweenFetches == ~hasty

\* C16: after a request has met a block signal, the pacing delay of the next
\* fetch attempt is inflated: every wait the crawl can draw is longer than the
\* base delay.
C16_BackoffAfterBlock ==
    blocked_page # 0 =>
        \A d \in Uniform(delay, delay + band_delay) : d > Ticks(2)

\* C17: the id of a record depends on its job URL only: one URL has one id
\* within a crawl, and the same id in a second run of the crawl, whichever
\* process runs it.
C17_IdFromUrlOnly ==
    /\ \A a, b \in 1..Len(job_list) :
         job_list[a].url = job_list[b].url => job_list[a].id = job_list[b].id
    /\ (run = 2 /\ pc = "done") =>
         \A a \in 1..Len(prev.jobs), b \in 1..Len(result) :
            prev.jobs[a].url = result[b].url => prev.jobs[a].id = result[b].id

\* the scrapers whose extraction reads the fields of a card by selectors
SelectorScrapers == {"PracujPL", "InfoJobs", "ProfessionHU", "Arbetsformedlingen"}

\* C18: selector extraction discards a card without title; a card that has a
\* title and a link (for PracujPL an offer id) but no company or no location
\* element is kept, with a placeholder that is not null in the missing field.
C18_MissingFieldPolicy ==
    (pc = "extracted" /\ scraper \in SelectorScrapers) =>
        /\ card.title = "absent" => extracted = None
        /\ (/\ card.title = "text" /\ card.href # "none" /\ card.offer_id
            /\ ~card.company \/ ~card.location)
           => /\ extracted # None
              /\ extracted.company_name # Null
              /\ extracted.city # Null

\* an absolute URL: the site's base URL followed by a path, or the absolute
\* href of the card as it stands
IsAbsoluteUrl(u) ==
    u \in {<<"http", "/path">>, <<"base", "/path">>,
           <<"base", "/oferta/", "offer_id">>}

\* C19: every record has an absolute job URL: a relative href is resolved
\* against the base URL, an absolute href is taken as it is, and a card
\* without href never gives a record whose URL is the base URL followed by
\* the text of a null.
C19_AbsoluteJobUrl ==
    (pc = "extracted" /\ extracted # None) =>
        /\ IsAbsoluteUrl(extracted.job_url)
        /\ card.href = "absolute" => extracted.job_url = Href(card)
        /\ extracted.job_url # <<"base", "None">>

\* C20: what scrape() gives its caller tells why the crawl ended (quota met,
\* site exhausted, aborted): two crawls of one request that give the same
\* response, or both an exception, ended for the same reason.
C20_ReasonTold ==
    (run = 2 /\ pc = "done" /\ prev.raised = raised /\ prev.jobs = result)
        => prev.reason = reason

\* C21: two crawls running at once on one scraper object keep to their own
\* request: each thread's quota is the quota of the input it passed, and
\* every page it fetches is searched with the search term of that input.
C21_OwnRequestUsed ==
    \A c \in DOMAIN threads :
        /\ (threads[c].pc \in {"loop", "returned"} /\ ReadsQuota(scraper))
              => threads[c].results_wanted = threads[c].scraper_input.results_wanted
        /\ \A k \in 1..Len(threads[c].terms) :
              threads[c].terms[k] = threads[c].scraper_input.search_term

\* C22: within one crawl at most one fetch is in flight at any time, and the
\* fetch of a listing page starts only when no fetch is in flight and the
\* page before it has been extracted and its records added to job_list.
C22_OneFetchAtATime ==
    [][/\ Cardinality(in_flight') <= 1
       /\ fetched' # fetched =>
            /\ in_flight = {}
            /\ current_page_num > 1 => (current_page_num - 1) \in pages_done]_vars

\* the detail page of the first card of page 2 is being fetched, page 1 has
\* been extracted and aggregated
C22_Witness ==
    /\ in_flight = {Fetch("detail", 2, 1)}
    /\ 1 \in pages_done
    /\ job_list # <<>>

\* C23: an Upwork crawl calls the structuring service once when the page
\* fetch gave a page and not at all when it failed; it never raises, and when
\* the page fetch or the service fails or answers with nothing the response
\* is empty.
C23_DelegatedOncePerPage ==
    (scraper = "Upwork" /\ pc = "done") =>
        /\ delegated.calls = (IF delegated.fetch = "ok" THEN 1 ELSE 0)
        /\ ~raised
        /\ (delegated.fetch # "ok" \/ delegated.service # "ok") => result = <<>>

\* the page was fetched and lists jobs, the structuring service failed
C23_Witness ==
    /\ scraper = "Upwork" /\ pc = "done"
    /\ Content(1) # <<>>
    /\ delegated.fetch = "ok" /\ delegated.service = "error"
    /\ delegated.calls = 1

\* C24: the PracujPL crawl requests no page beyond the page count its first
\* page reported; without a reported count the count is 1 and only page 1 is
\* requested and processed.
C24_WithinReportedMax ==
    scraper = "PracujPL" =>
        /\ max_page_num = (IF max_reported = 0 THEN 1 ELSE max_reported)
        /\ \A k \in 1..Len(fetched) : fetched[k] <= max_page_num
        /\ max_reported = 0 =>
             /\ \A k \in 1..Len(fetched) : fetched[k] = 1
             /\ \A k \in 1..Len(job_list) : job_list[k].page = 1

\* the first page reported no count; the crawl ended after page 1 although
\* the site has a second page and the quota is not met
C24_Witness ==
    /\ scraper = "PracujPL" /\ pc = "done"
    /\ max_reported = 0
    /\ job_list # <<>> /\ Len(job_list) < results_wanted
    /\ Content(2) # <<>>

\* the results pages the listing fetches of the crawl loaded, in order
PagesLoaded ==
    [k \in 1..Len(fetched) |->
        IF scraper = "PosaoHR" THEN PosaoHR_page_shown(fetched[k]) ELSE fetched[k]]

NoRepeat(seq) == \A a, b \in 1..Len(seq) : a # b => seq[a] # seq[b]

\* C25: the page counter is 1 until the first fetch and a step leaves it or
\* adds exactly 1; no results page is fetched twice in one crawl; job_list
\* only grows.
C25_PagesAdvance ==
    [][/\ fetched = <<>> => current_page_num = 1
       /\ current_page_num' \in {current_page_num, current_page_num + 1}
       /\ IsPrefix(job_list, job_list')
       /\ NoRepeat(PagesLoaded')]_vars

\* C28: in a PosaoHR crawl every record taken in iteration n is a card of
\* results page n of the site: the n-th listing fetch loads page n, not the
\* first page again.
C28_NthPageLoaded ==
    scraper = "PosaoHR" =>
        /\ \A k \in 1..Len(fetched) : PagesLoaded[k] = k
        /\ \A k \in 1..Len(job_list) :
             /\ job_list[k].pos \in 1..Len(Content(job_list[k].page))
             /\ job_list[k].url = Content(job_list[k].page)[job_list[k].pos]

\* C26: a crawl whose request leaves the quota unset stops accumulating at 10
\* records: job_list never holds more, and neither does the response.
C26_DefaultQuotaOfTen ==
    /\ Len(job_list) <= 10
    /\ Len(result) <= 10

\* C29: in the Arbetsformedlingen crawl a card the handler logs as skipped
\* (the failure count of the page grows) leaves the accumulated job list as
\* it was, also when the failure is the go-back or the listing wait that
\* follows building the record.
C29_FailedCardAddsNothing ==
    [][(scraper = "Arbetsformedlingen" /\ failed' > failed)
          => job_list' = job_list]_vars

\* C30: in the Arbetsformedlingen crawl the company name is bound to the
\* value of the card at hand when the record is built, and every emitted
\* record carries the company name of its own card.
C30_CompanyOfOwnCard ==
    scraper = "Arbetsformedlingen" =>
        /\ pc = "detail" => company_name = "own"
        /\ \A k \in 1..Len(job_list) : job_list[k].company = "own"

\* C27: every crawl terminates, whatever the site does: the loop reaches its
\* end and scrape() returns (or raises), also on a site that keeps serving
\* non-empty listing pages whose cards all fail.
C27_Terminates == <>(pc = "done")

\* C31: once the accumulated record count has reached the quota, the crawl
\* issues no further listing fetch and performs no further pacing wait.
C31_NothingAfterQuota ==
    [][Len(job_list) >= results_wanted
          => (fetched' = fetched /\ waits' = waits)]_vars

\* C32: every detail page PosaoHR _process_job_detail opened is closed when
\* the function returns, on the success path and on the failure path: no
\* detail page is open between records.
C32_DetailPagesClosed == scraper = "PosaoHR" => detail_open = 0

\* C33: in the Arbetsformedlingen crawl the fields of a card are read only
\* while the browser shows the listing: a step that reads a card (it ends in
\* a failed card or in the card's detail page) starts from the listing view,
\* and when the page shows something else at the top of a card, the
\* processing of the page stops.
C33_CardsReadOnListing ==
    [][(scraper = "Arbetsformedlingen" /\ pc = "card") =>
          /\ (failed' > failed \/ pc' = "detail") => view = "listing"
          /\ view # "listing" => pc' \in {"after", "done"}]_vars

\* the first card failed on its detail page and the listing was restored;
\* the second card was read and its detail page is shown
C33_Witness ==
    /\ scraper = "Arbetsformedlingen"
    /\ pc = "detail"
    /\ i = 2
    /\ failed = 1
    /\ nav_tries = 1

====
